---- MODULE Spec2Model ----
(***************************************************************************)
(* Request dispatch of the blog handler (src/blog.tsx): the trailing-slash *)
(* normalizer of createBlogHandler, the step queue and ctx.next() of       *)
(* composeMiddlewares, the redirects and ga middlewares, and the inner     *)
(* handler.  Strings whose characters the code inspects (paths, redirect   *)
(* targets, locations) are sequences of one-character strings.             *)
(*                                                                         *)
(* An async function runs until it awaits or returns; every action below   *)
(* is one such run of one request's innermost active step, so requests in  *)
(* flight interleave at (a superset of) their await points.  User-supplied *)
(* middlewares await each next() call before the following one.           *)
(***************************************************************************)
EXTENDS Naturals, Sequences, FiniteSets, TLC

\* ------------------------------------------------------------- bounds
\* longest configured middleware list
MaxMws == 2
\* most next() calls a user-supplied middleware makes in one invocation
MaxNextCalls == 2
\* most redirect-map keys of the maps of SpecRedirects
MaxMapKeys == 2
\* most hot-reload sockets open at once
MaxSockets == 1

\* request slots: r1 alone in Spec, both in flight together in SpecConc
Reqs == {"r1", "r2"}

VARIABLES
  isDev,      \* IS_DEV
  settings,   \* the BlogState shared by every request
  phase,      \* per slot: "off", "idle", "running", "done"
  reqUrl,     \* per slot: the request's URL (pathname and search)
  collab,     \* per slot: what the external collaborator does for this request
  handlers,   \* per queue owner: the queue of pending steps
  stack,      \* per slot: the active invocations, innermost last
  result,     \* per slot: what the handler's promise settles to
  calls,      \* per slot: the invocations made, as <<caller, callee>> positions
  made,       \* per slot: who constructed a Response, in order
  reports,    \* per slot: the calls of gaReporter
  firstQueue, \* the step order built for the first dispatched request
  lastQueue,  \* the step order built for the latest dispatched request
  hmrSockets, \* the size of HMR_SOCKETS
  returns,    \* per slot: the steps that settled, with what they got and gave
  repeated,   \* a request was dispatched after the first one
  concurrent  \* per slot: another request was in flight during this one

vars == <<isDev, settings, phase, reqUrl, collab, handlers, stack, result,
          calls, made, reports, firstQueue, lastQueue, hmrSockets, returns,
          repeated, concurrent>>

\* ------------------------------------------------------------- strings
Str_root == <<"/">>
Str_a == <<"/", "a">>
Str_b == <<"/", "b">>
Str_aSlash == <<"/", "a", "/">>
Str_aSlashSlash == <<"/", "a", "/", "/">>
Str_slashSlash == <<"/", "/">>
Str_hmr == <<"/", "h", "m", "r">>
Str_hmrJs == <<"/", "h", "m", "r", ".", "j", "s">>
Str_http == <<"h", "t", "t", "p">>
Origin == <<"h", "t", "t", "p", "s", ":", "/", "/", "x">>
Letters == {"a", "b", "d", "e", "f", "h", "j", "m", "p", "r", "s", "t", "x"}

startsWith(s, p) == Len(s) >= Len(p) /\ SubSeq(s, 1, Len(p)) = p
endsWith(s, p) == Len(s) >= Len(p) /\ SubSeq(s, Len(s) - Len(p) + 1, Len(s)) = p
\* s.slice(1)
sliceFrom1(s) == SubSeq(s, 2, Len(s))
\* s.slice(0, -1)
sliceDropLast(s) == SubSeq(s, 1, Len(s) - 1)
Reverse(s) == [i \in 1..Len(s) |-> s[Len(s) + 1 - i]]

\* a value no string equals: a missing property of an object
Undefined == <<"undefined">>
Truthy(v) == v # Undefined /\ v # <<>>

\* ------------------------------------------------------------- values
NoValue == [kind |-> "none", status |-> 0, location |-> <<>>, body |-> <<>>,
            ctype |-> "", by |-> ""]
Response(st, loc, bd, ct, who) ==
  [kind |-> "resp", status |-> st, location |-> loc, body |-> bd,
   ctype |-> ct, by |-> who]
ErrorValue(msg) ==
  [kind |-> "err", status |-> 0, location |-> <<>>, body |-> <<msg>>,
   ctype |-> "", by |-> ""]

Href(url) == Origin \o url.path \o url.search

\* ------------------------------------------------------------- middlewares
EmptyMap == <<>>
redirectsMw(map) == [kind |-> "redirects", map |-> map, ncalls |-> 0, throws |-> FALSE]
gaMw == [kind |-> "ga", map |-> EmptyMap, ncalls |-> 0, throws |-> FALSE]
\* a user-supplied middleware: awaits next() ncalls times in a row, without
\* a try block, then throws or returns the last response it got (its own
\* response when it never calls next())
customMw(n, t) == [kind |-> "custom", map |-> EmptyMap, ncalls |-> n, throws |-> t]
innerMw == [kind |-> "inner", map |-> EmptyMap, ncalls |-> 0, throws |-> FALSE]

MapAB == (Str_a :> <<"b">>)
MapExt == (<<"b">> :> <<"h", "t", "t", "p", "s", ":", "/", "/", "e">>)

Absent == "<absent>"
\* settings objects: the middleware list is given separately
Profiles ==
  { [title |-> Absent, description |-> Absent],
    [title |-> "Test blog", description |-> "This is some description."] }

\* ------------------------------------------------------------- requests
Url(p, q) == [path |-> p, search |-> q]
Urls ==
  { Url(p, <<>>) : p \in { Str_root, Str_a, Str_b, Str_aSlash, Str_aSlashSlash,
                           Str_slashSlash, Str_hmr, Str_hmrJs } }
  \cup { Url(Str_aSlash, <<"?", "q">>) }
\* the external collaborator (serveDir, Deno.upgradeWebSocket), when the
\* request gets to it, finds the file, misses it, or throws
Outcomes == {"found", "missing", "throws"}

\* ------------------------------------------------------------- normalizer
\* url.pathname.length > 1 && url.pathname.endsWith("/")
NeedsRedirectOffByOne(url) == Len(url.path) > 2 /\ endsWith(url.path, <<"/">>)
NeedsRedirect(url) == Len(url.path) > 1 /\ endsWith(url.path, <<"/">>)

\* url.pathname = url.pathname.slice(0, -1); Response.redirect(url.href, 307)
TrailingSlashRedirect(url) ==
  Response(307, Href([url EXCEPT !.path = sliceDropLast(url.path)]), <<>>, "",
           "normalizer")

\* ------------------------------------------------------------- composeMiddlewares
\* state.middlewares after state.middlewares?.slice().reverse(): the copy
\* is reversed, the list itself is left as it was
MiddlewaresReversedInPlace(mws) == Reverse(mws)
MiddlewaresAfterCompose(mws) == mws

Step(r, p, mw) == [req |-> r, pos |-> p, mw |-> mw]

\* the queue without the final push of the inner handler
BuildHandlersNoInner(r, st) ==
  LET mws == IF st.hasMiddlewares THEN Reverse(st.middlewares) ELSE <<>>
      n == Len(mws)
  IN [i \in 1..n |-> Step(r, n + 1 - i, mws[i])]
\* handlers after the pushes: one step per middleware of the reversed copy,
\* then the inner handler; pos is the middleware's index in the configured
\* list, Len + 1 for the inner handler
BuildHandlers(r, st) ==
  LET mws == IF st.hasMiddlewares THEN Reverse(st.middlewares) ELSE <<>>
      n == Len(mws)
  IN [i \in 1..(n + 1) |->
        IF i <= n THEN Step(r, n + 1 - i, mws[i]) ELSE Step(r, n + 1, innerMw)]

\* what is left of the queue after handlers.shift()
Shift(q) == Tail(q)

\* the handlers array a request's ctx.next() works on: the one its own
\* composeMiddlewares call created
QueueOfShared(r) == "r1"
QueueOf(r) == r

\* handlers.shift() on an empty queue gives undefined, and calling it throws
NextOnEmptyUndefined == Response(0, <<>>, <<"undefined">>, "", "")
NextOnEmpty == ErrorValue("handler is not a function")

MaxDepth == MaxMws + 2

\* ------------------------------------------------------------- redirects
\* redirectMap[pathname], and redirectMap[pathname.slice(1)] when that is falsy
redirectsLookup(map, pathname) ==
  LET exact == IF pathname \in DOMAIN map THEN map[pathname] ELSE Undefined
      trimmed == sliceFrom1(pathname)
  IN IF Truthy(exact) THEN exact
     ELSE IF trimmed \in DOMAIN map THEN map[trimmed] ELSE Undefined

\* "/" is prepended unless the target starts with "/" or with "http"
redirectsLocation(target) ==
  IF ~startsWith(target, <<"/">>) /\ ~startsWith(target, Str_http)
  THEN <<"/">> \o target
  ELSE target

redirectsResponse(target) ==
  Response(307, redirectsLocation(target), <<>>, "", "redirects")

InternalServerError(e, who) ==
  Response(500, <<>>, <<"Internal server error: ", e.body[1]>>, "", who)

\* the catch block around await ctx.next() in redirects
redirectsRethrow(e) == e
redirectsOnError(e) == InternalServerError(e, "redirects")

\* the catch block around await ctx.next() in ga
gaRethrow(e) == e
gaOnError(e) == InternalServerError(e, "ga")

CustomResponse == Response(200, <<>>, <<"custom">>, "", "custom")
CustomError == ErrorValue("custom middleware failed")

\* ------------------------------------------------------------- inner handler
IndexPage(st) ==
  Response(200, <<>>,
           <<IF st.title = Absent THEN "My Blog" ELSE st.title, st.description>>,
           "text/html; charset=utf-8", "inner")

\* await serveDir(req)
serveDir(c) ==
  CASE c = "found" -> Response(200, <<>>, <<"file">>, "file", "inner")
    [] c = "missing" -> Response(404, <<>>, <<"Not Found">>, "", "inner")
    [] OTHER -> ErrorValue("serveDir failed")

\* Deno.upgradeWebSocket(req)
upgradeWebSocket(c) ==
  IF c = "throws" THEN ErrorValue("upgrade failed")
  ELSE Response(101, <<>>, <<>>, "", "inner")

\* the index page for every path
handlerResultAlwaysIndex(url, dev, st, c) == IndexPage(st)
\* what handler(req, ctx) settles to
handlerResult(url, dev, st, c) ==
  IF dev /\ url.path = Str_hmrJs
  THEN Response(200, <<>>, <<"HMR_CLIENT">>, "application/javascript", "inner")
  ELSE IF dev /\ url.path = Str_hmr THEN upgradeWebSocket(c)
  ELSE IF url.path = Str_root THEN IndexPage(st)
  ELSE serveDir(c)

\* HMR_SOCKETS.add(socket) happened
OpensSocket(url, dev, c) == dev /\ url.path = Str_hmr /\ c # "throws"

\* ------------------------------------------------------------- execution
Frame(step) == [step |-> step, pc |-> "start", nexts |-> 0, ret |-> NoValue]
Top(r) == stack[r][Len(stack[r])]
Running(r, kind, pc) ==
  /\ phase[r] = "running"
  /\ stack[r] # <<>>
  /\ Top(r).step.mw.kind = kind
  /\ Top(r).pc = pc
\* the URL of the request the innermost step was created with
TopUrl(r) == reqUrl[Top(r).step.req]

\* the innermost step settles to v (own: a Response it constructed itself):
\* its awaiting caller resumes with v, or, when it is the step the dispatch
\* invoked, the handler's promise settles
Return(r, v, own) ==
  LET f == Top(r)
      rest == SubSeq(stack[r], 1, Len(stack[r]) - 1)
  IN /\ IF rest = <<>>
        THEN /\ stack' = [stack EXCEPT ![r] = <<>>]
             /\ result' = [result EXCEPT ![r] = v]
             /\ phase' = [phase EXCEPT ![r] = "done"]
        ELSE /\ stack' = [stack EXCEPT ![r] =
                  [rest EXCEPT ![Len(rest)] = [@ EXCEPT !.pc = "resumed", !.ret = v]]]
             /\ UNCHANGED <<result, phase>>
     /\ made' = [made EXCEPT ![r] =
                   IF own /\ v.kind = "resp" THEN Append(@, v.by) ELSE @]
     /\ returns' = [returns EXCEPT ![r] =
                   Append(@, [pos |-> f.step.pos, kind |-> f.step.mw.kind,
                              nexts |-> f.nexts, own |-> own, got |-> f.ret,
                              val |-> v])]
     /\ UNCHANGED <<handlers, calls>>

\* ctx.next(): shift the queue and invoke the step; on an empty queue the
\* call throws at the call site
CallNext(r) ==
  LET f == Top(r)
      o == QueueOf(f.step.req)
      q == handlers[o]
      n == Len(stack[r])
  IN /\ n < MaxDepth
     /\ IF q = <<>>
        THEN /\ stack' = [stack EXCEPT ![r][n] =
                  [@ EXCEPT !.pc = "resumed", !.ret = NextOnEmpty, !.nexts = @ + 1]]
             /\ UNCHANGED <<handlers, calls>>
        ELSE /\ handlers' = [handlers EXCEPT ![o] = Shift(q)]
             /\ stack' = [stack EXCEPT ![r] =
                  Append([@ EXCEPT ![n] = [@ EXCEPT !.pc = "awaiting", !.nexts = @ + 1]],
                         Frame(Head(q)))]
             /\ calls' = [calls EXCEPT ![r] = Append(@, <<f.step.pos, Head(q).pos>>)]
     /\ UNCHANGED <<result, phase, made, returns>>

\* handler(req, connInfo) of createBlogHandler, through composeMiddlewares
\* up to the invocation of the first queued step
Receive(r, url, c) ==
  /\ phase[r] = "idle"
  /\ reqUrl' = [reqUrl EXCEPT ![r] = url]
  /\ reports' = [reports EXCEPT ![r] = <<>>]
  /\ returns' = [returns EXCEPT ![r] = <<>>]
  /\ IF NeedsRedirect(url)
     THEN /\ result' = [result EXCEPT ![r] = TrailingSlashRedirect(url)]
          /\ phase' = [phase EXCEPT ![r] = "done"]
          /\ made' = [made EXCEPT ![r] = <<"normalizer">>]
          /\ calls' = [calls EXCEPT ![r] = <<>>]
          /\ UNCHANGED <<settings, collab, handlers, stack, firstQueue, lastQueue,
                         repeated, concurrent>>
     ELSE LET q == BuildHandlers(r, settings)
              order == [i \in 1..Len(q) |-> q[i].mw]
              others == {o \in Reqs \ {r} : phase[o] = "running"}
          IN /\ settings' = [settings EXCEPT
                              !.middlewares = MiddlewaresAfterCompose(@)]
             /\ firstQueue' = IF firstQueue = <<>> THEN order ELSE firstQueue
             /\ lastQueue' = order
             /\ repeated' = (firstQueue # <<>>)
             /\ made' = [made EXCEPT ![r] = <<>>]
             /\ collab' = [collab EXCEPT ![r] = c]
             /\ IF q = <<>>
                THEN /\ result' = [result EXCEPT ![r] = NextOnEmpty]
                     /\ phase' = [phase EXCEPT ![r] = "done"]
                     /\ calls' = [calls EXCEPT ![r] = <<>>]
                     /\ UNCHANGED <<handlers, stack, concurrent>>
                ELSE /\ handlers' = [handlers EXCEPT ![QueueOf(r)] = Shift(q)]
                     /\ stack' = [stack EXCEPT ![r] = <<Frame(Head(q))>>]
                     /\ calls' = [calls EXCEPT ![r] = <<<<0, Head(q).pos>>>>]
                     /\ result' = [result EXCEPT ![r] = NoValue]
                     /\ phase' = [phase EXCEPT ![r] = "running"]
                     /\ concurrent' = [o \in Reqs |->
                          IF o = r THEN others # {}
                          ELSE concurrent[o] \/ o \in others]
  /\ UNCHANGED <<isDev, hmrSockets>>

Frozen == <<isDev, settings, reqUrl, collab, firstQueue, lastQueue, repeated,
            concurrent>>

\* redirects: from its start to the 307 response or to await ctx.next()
RedirectsStart(r) ==
  /\ Running(r, "redirects", "start")
  /\ LET t == redirectsLookup(Top(r).step.mw.map, TopUrl(r).path)
     IN IF Truthy(t) THEN Return(r, redirectsResponse(t), TRUE) ELSE CallNext(r)
  /\ UNCHANGED <<Frozen, reports, hmrSockets>>

\* redirects: after await ctx.next()
RedirectsResume(r) ==
  /\ Running(r, "redirects", "resumed")
  /\ LET got == Top(r).ret
     IN IF got.kind = "err" THEN Return(r, redirectsOnError(got), TRUE)
        ELSE Return(r, got, FALSE)
  /\ UNCHANGED <<Frozen, reports, hmrSockets>>

\* ga: from its start to await ctx.next()
GaStart(r) ==
  /\ Running(r, "ga", "start")
  /\ CallNext(r)
  /\ UNCHANGED <<Frozen, reports, hmrSockets>>

\* ga: after await ctx.next(): catch, finally gaReporter(...), return res
GaResume(r) ==
  /\ Running(r, "ga", "resumed")
  /\ LET got == Top(r).ret
         res == IF got.kind = "err" THEN gaOnError(got) ELSE got
     IN /\ Return(r, res, got.kind = "err")
        /\ reports' = [reports EXCEPT ![r] =
             Append(@, [pos |-> Top(r).step.pos, url |-> TopUrl(r), res |-> res,
                        err |-> IF got.kind = "err" THEN got ELSE NoValue])]
  /\ UNCHANGED <<Frozen, hmrSockets>>

\* a user-supplied middleware, from its start
CustomStart(r) ==
  /\ Running(r, "custom", "start")
  /\ LET mw == Top(r).step.mw
     IN IF mw.ncalls = 0
        THEN Return(r, IF mw.throws THEN CustomError ELSE CustomResponse, TRUE)
        ELSE CallNext(r)
  /\ UNCHANGED <<Frozen, reports, hmrSockets>>

\* a user-supplied middleware, after an await ctx.next()
CustomResume(r) ==
  /\ Running(r, "custom", "resumed")
  /\ LET f == Top(r)
     IN IF f.ret.kind = "err" THEN Return(r, f.ret, FALSE)
        ELSE IF f.nexts < f.step.mw.ncalls THEN CallNext(r)
        ELSE IF f.step.mw.throws THEN Return(r, CustomError, TRUE)
        ELSE Return(r, f.ret, FALSE)
  /\ UNCHANGED <<Frozen, reports, hmrSockets>>

\* the inner handler
InnerRun(r) ==
  /\ Running(r, "inner", "start")
  /\ LET v == handlerResult(TopUrl(r), isDev, settings, collab[Top(r).step.req])
         opens == OpensSocket(TopUrl(r), isDev, collab[Top(r).step.req])
     IN /\ opens => hmrSockets < MaxSockets
        /\ hmrSockets' = IF opens THEN hmrSockets + 1 ELSE hmrSockets
        /\ Return(r, v, TRUE)
  /\ UNCHANGED <<Frozen, reports>>

\* socket.onclose: HMR_SOCKETS.delete(socket)
HmrSocketClose ==
  /\ hmrSockets > 0
  /\ hmrSockets' = hmrSockets - 1
  /\ UNCHANGED <<Frozen, phase, handlers, stack, result, calls, made, reports,
                 returns>>

\* the response (or the error) has been handed to the server; the request's
\* context and queue are dropped
Discard(r) ==
  /\ phase[r] = "done"
  /\ phase' = [phase EXCEPT ![r] = "idle"]
  /\ result' = [result EXCEPT ![r] = NoValue]
  /\ calls' = [calls EXCEPT ![r] = <<>>]
  /\ made' = [made EXCEPT ![r] = <<>>]
  /\ reports' = [reports EXCEPT ![r] = <<>>]
  /\ returns' = [returns EXCEPT ![r] = <<>>]
  /\ handlers' = [handlers EXCEPT ![r] = <<>>]
  /\ concurrent' = [concurrent EXCEPT ![r] = FALSE]
  /\ UNCHANGED <<isDev, settings, reqUrl, collab, stack, firstQueue, lastQueue,
                 repeated, hmrSockets>>

\* ------------------------------------------------------------- specifications
CustomChoices == {customMw(n, FALSE) : n \in 0..MaxNextCalls} \cup {customMw(0, TRUE)}
MwChoices == {redirectsMw(MapAB), gaMw} \cup CustomChoices

Lists(choices, maxLen) == UNION {[1..n -> choices] : n \in 0..maxLen}
SettingsOver(lists, profiles) ==
  { [hasMiddlewares |-> TRUE, middlewares |-> m, title |-> p.title,
     description |-> p.description] : m \in lists, p \in profiles }
  \cup { [hasMiddlewares |-> FALSE, middlewares |-> <<>>, title |-> p.title,
          description |-> p.description] : p \in profiles }

InitRequests(active) ==
  /\ phase = [r \in Reqs |-> IF r \in active THEN "idle" ELSE "off"]
  /\ reqUrl = [r \in Reqs |-> Url(Str_root, <<>>)]
  /\ collab = [r \in Reqs |-> "found"]
  /\ handlers = [r \in Reqs |-> <<>>]
  /\ stack = [r \in Reqs |-> <<>>]
  /\ result = [r \in Reqs |-> NoValue]
  /\ calls = [r \in Reqs |-> <<>>]
  /\ made = [r \in Reqs |-> <<>>]
  /\ reports = [r \in Reqs |-> <<>>]
  /\ firstQueue = <<>>
  /\ lastQueue = <<>>
  /\ hmrSockets = 0
  /\ returns = [r \in Reqs |-> <<>>]
  /\ repeated = FALSE
  /\ concurrent = [r \in Reqs |-> FALSE]

Init ==
  /\ isDev \in BOOLEAN
  /\ settings \in SettingsOver(Lists(MwChoices, MaxMws), Profiles)
  /\ InitRequests({"r1"})

Next ==
  \/ \E r \in Reqs, url \in Urls, c \in Outcomes : Receive(r, url, c)
  \/ \E r \in Reqs : RedirectsStart(r)
  \/ \E r \in Reqs : RedirectsResume(r)
  \/ \E r \in Reqs : GaStart(r)
  \/ \E r \in Reqs : GaResume(r)
  \/ \E r \in Reqs : CustomStart(r)
  \/ \E r \in Reqs : CustomResume(r)
  \/ \E r \in Reqs : InnerRun(r)
  \/ HmrSocketClose
  \/ \E r \in Reqs : Discard(r)

Spec == Init /\ [][Next]_vars

\* two requests in flight at once, outside dev mode
MapBoth == MapAB @@ MapExt
ConcChoices == {redirectsMw(MapBoth), gaMw, customMw(MaxNextCalls, FALSE)}
ConcUrls == {Url(p, <<>>) : p \in {Str_root, Str_a, Str_b, Str_aSlash}}
ConcOutcomes == {"found", "throws"}

InitConc ==
  /\ isDev = FALSE
  /\ settings \in SettingsOver(Lists(ConcChoices, MaxMws),
                               {[title |-> "Test blog",
                                 description |-> "This is some description."]})
  /\ InitRequests(Reqs)

NextConc ==
  \/ \E r \in Reqs, url \in ConcUrls, c \in ConcOutcomes : Receive(r, url, c)
  \/ \E r \in Reqs : RedirectsStart(r)
  \/ \E r \in Reqs : RedirectsResume(r)
  \/ \E r \in Reqs : GaStart(r)
  \/ \E r \in Reqs : GaResume(r)
  \/ \E r \in Reqs : CustomStart(r)
  \/ \E r \in Reqs : CustomResume(r)
  \/ \E r \in Reqs : InnerRun(r)
  \/ \E r \in Reqs : Discard(r)

SpecConc == InitConc /\ [][NextConc]_vars

\* the redirects middleware alone, over every small redirect map
MapKeys == {Str_a, <<"a">>, Str_b, <<"b">>}
MapTargets ==
  { <<"b">>, <<"/", "b">>, <<"h", "t", "t", "p", "s", ":", "/", "/", "e">>,
    <<"h", "t", "t", "p", "d">>, <<"f", "t", "p", ":", "/", "/", "e">> }
RedirectMaps ==
  UNION { [ks -> MapTargets] : ks \in {k \in SUBSET MapKeys : Cardinality(k) <= MaxMapKeys} }

InitRedirects ==
  /\ isDev = FALSE
  /\ settings \in SettingsOver({<<redirectsMw(m)>> : m \in RedirectMaps},
                               {[title |-> "Test blog",
                                 description |-> "This is some description."]})
  /\ InitRequests({"r1"})

NextRedirects ==
  \/ \E r \in Reqs, url \in Urls, c \in Outcomes : Receive(r, url, c)
  \/ \E r \in Reqs : RedirectsStart(r)
  \/ \E r \in Reqs : RedirectsResume(r)
  \/ \E r \in Reqs : InnerRun(r)
  \/ \E r \in Reqs : Discard(r)

SpecRedirects == InitRedirects /\ [][NextRedirects]_vars

\* ------------------------------------------------------------- properties
Handled(r) == phase[r] \in {"running", "done"}
Done(r) == phase[r] = "done"
NumMws == IF settings.hasMiddlewares THEN Len(settings.middlewares) ELSE 0
InnerPos == NumMws + 1
Indices(seq) == 1..Len(seq)
TrailingSlash(path) == Len(path) > 1 /\ path[Len(path)] = "/"
CallsBy(r, p) == Cardinality({i \in Indices(calls[r]) : calls[r][i][1] = p})
CallsTo(r, p) == Cardinality({i \in Indices(calls[r]) : calls[r][i][2] = p})

\* C1: a request whose path is longer than 1 and ends with "/" is answered
\* with a 307 redirect to the same URL with one trailing "/" removed, no
\* step is invoked for it, and no step ever runs for such a path
C1_TrailingSlashRedirect ==
  \A r \in Reqs :
    /\ (Handled(r) /\ TrailingSlash(reqUrl[r].path)) =>
         /\ Done(r)
         /\ result[r].kind = "resp"
         /\ result[r].status = 307
         /\ result[r].location =
              Origin \o SubSeq(reqUrl[r].path, 1, Len(reqUrl[r].path) - 1)
                     \o reqUrl[r].search
         /\ calls[r] = <<>>
         /\ returns[r] = <<>>
         /\ stack[r] = <<>>
    /\ \A i \in Indices(stack[r]) : ~TrailingSlash(reqUrl[stack[r][i].step.req].path)

C1_Witness ==
  \E r \in Reqs :
    /\ Done(r)
    /\ reqUrl[r].path = Str_aSlashSlash
    /\ result[r].status = 307
    /\ result[r].location = Origin \o Str_aSlash
    /\ NumMws > 0

\* C2: with middlewares that call next() at most once, the dispatch invokes
\* the first-configured middleware, next() called by the i-th invokes the
\* (i+1)-th, and next() called by the last invokes the inner handler
C2_ConfigurationOrder ==
  (\A i \in Indices(settings.middlewares) : settings.middlewares[i].ncalls <= 1) =>
    \A r \in Reqs :
      Handled(r) => \A i \in Indices(calls[r]) : calls[r][i][2] = calls[r][i][1] + 1

\* a target that starts with a scheme, and the location and target the
\* redirect-map contract names
HasScheme(t) ==
  \E i \in 2..Len(t) : t[i] = ":" /\ \A j \in 1..(i - 1) : t[j] \in Letters
ReferenceLocation(t) ==
  IF startsWith(t, <<"/">>) \/ HasScheme(t) THEN t ELSE <<"/">> \o t
ReferenceTarget(map, path) ==
  IF path \in DOMAIN map THEN map[path] ELSE map[SubSeq(path, 2, Len(path))]
\* C3: a request whose path, as is or without its leading "/", is a key of
\* the redirect map gets 307 with location the mapped target, prefixed with
\* "/" unless it starts with "/" or with a scheme
C3_RedirectReference ==
  \A r \in Reqs :
    LET mws == settings.middlewares
        path == reqUrl[r].path
    IN (/\ Done(r)
        /\ Len(mws) = 1
        /\ mws[1].kind = "redirects"
        /\ ~TrailingSlash(path)
        /\ path \in DOMAIN mws[1].map \/ SubSeq(path, 2, Len(path)) \in DOMAIN mws[1].map)
       => /\ result[r].kind = "resp"
          /\ result[r].status = 307
          /\ result[r].location = ReferenceLocation(ReferenceTarget(mws[1].map, path))

\* the configured middlewares are the library's own, and there is one
LibraryOnly ==
  /\ NumMws >= 1
  /\ \A i \in Indices(settings.middlewares) :
       settings.middlewares[i].kind \in {"redirects", "ga"}
C6_EmptyListIsInner ==
  \A r \in Reqs :
    (NumMws = 0 /\ Handled(r) /\ ~TrailingSlash(reqUrl[r].path)) =>
      /\ calls[r] = <<<<0, 1>>>>
      /\ Len(stack[r]) + Len(returns[r]) = 1
      /\ \A i \in Indices(stack[r]) : stack[r][i].step.mw.kind = "inner"
      /\ \A i \in Indices(returns[r]) : returns[r][i].kind = "inner"
      /\ Done(r) =>
           /\ returns[r][1].val = result[r]
           /\ result[r] = handlerResult(reqUrl[r], isDev, settings, collab[r])

C6_Witness ==
  \E r \in Reqs :
    /\ NumMws = 0
    /\ ~settings.hasMiddlewares
    /\ Done(r)
    /\ reqUrl[r].path = Str_a
    /\ result[r].status = 404

RECURSIVE Alone(_, _, _), AloneCalls(_, _, _, _, _)
Alone(q, url, c) ==
  IF q = <<>> THEN [val |-> ErrorValue("handler is not a function"), rest |-> <<>>]
  ELSE LET mw == Head(q).mw
           down == Alone(Tail(q), url, c)
       IN CASE mw.kind = "inner" ->
                 [val |-> handlerResult(url, isDev, settings, c), rest |-> Tail(q)]
            [] mw.kind = "redirects" ->
                 IF Truthy(redirectsLookup(mw.map, url.path))
                 THEN [val |-> redirectsResponse(redirectsLookup(mw.map, url.path)),
                       rest |-> Tail(q)]
                 ELSE IF down.val.kind = "err"
                 THEN [val |-> InternalServerError(down.val, "redirects"),
                       rest |-> down.rest]
                 ELSE down
            [] mw.kind = "ga" ->
                 IF down.val.kind = "err"
                 THEN [val |-> InternalServerError(down.val, "ga"), rest |-> down.rest]
                 ELSE down
            [] OTHER ->
                 IF mw.ncalls = 0
                 THEN [val |-> IF mw.throws THEN CustomError ELSE CustomResponse,
                       rest |-> Tail(q)]
                 ELSE AloneCalls(mw.ncalls, Tail(q), url, c, NoValue)
AloneCalls(k, q, url, c, last) ==
  IF k = 0 THEN [val |-> last, rest |-> q]
  ELSE LET down == Alone(q, url, c)
       IN IF down.val.kind = "err" THEN down
          ELSE AloneCalls(k - 1, down.rest, url, c, down.val)

\* C5: requests in flight together keep to their own queue and context: a
\* step runs only in the request it was queued for, and every request ends
\* with the response it gets when handled alone
C5_RequestsIsolated ==
  \A r \in Reqs :
    /\ \A i \in Indices(stack[r]) : stack[r][i].step.req = r
    /\ \A i \in Indices(handlers[r]) : handlers[r][i].req = r
    /\ (Done(r) /\ ~TrailingSlash(reqUrl[r].path)) =>
         result[r] = Alone(BuildHandlers(r, settings), reqUrl[r], collab[r]).val

C5_Witness ==
  /\ Done("r1") /\ Done("r2")
  /\ concurrent["r1"] /\ concurrent["r2"]
  /\ NumMws = 2
  /\ settings.middlewares[1].kind = "redirects"
  /\ reqUrl["r1"].path = Str_a /\ result["r1"].location = <<"/", "b">>
  /\ reqUrl["r2"].path = Str_b
  /\ result["r2"].location = <<"h", "t", "t", "p", "s", ":", "/", "/", "e">>

\* C8: redirects and ga turn an error that reaches them through next() into
\* a 500 response carrying the error's message, which is the request's
\* response when they are the outermost step; ga reports each request once,
\* and in the error case with that 500 response and the error
C8_DownstreamErrorCaught ==
  \A r \in Reqs :
    /\ \A i \in Indices(returns[r]) :
         LET e == returns[r][i]
         IN /\ (e.kind \in {"redirects", "ga"} /\ e.got.kind = "err") =>
                 /\ e.val.kind = "resp"
                 /\ e.val.status = 500
                 /\ e.val.body = <<"Internal server error: ", e.got.body[1]>>
                 /\ (Done(r) /\ i = Len(returns[r])) => result[r] = e.val
            /\ e.kind = "ga" =>
                 \E j \in Indices(reports[r]) :
                   /\ reports[r][j].pos = e.pos
                   /\ reports[r][j].res = e.val
                   /\ reports[r][j].url = reqUrl[r]
                   /\ reports[r][j].err = IF e.got.kind = "err" THEN e.got ELSE NoValue
                   /\ \A k \in Indices(reports[r]) : reports[r][k].pos = e.pos => k = j
    /\ \A j \in Indices(reports[r]) :
         \E i \in Indices(returns[r]) :
           returns[r][i].kind = "ga" /\ returns[r][i].pos = reports[r][j].pos

C8_Witness ==
  \E r \in Reqs :
    /\ Done(r)
    /\ NumMws = 2
    /\ settings.middlewares[1].kind = "ga"
    /\ settings.middlewares[2].kind = "redirects"
    /\ result[r].status = 500
    /\ result[r].by = "ga"
    /\ Len(reports[r]) = 1
    /\ reports[r][1].err = ErrorValue("serveDir failed")
    /\ reports[r][1].res = result[r]

\* C9: no step of any request changes the settings, and every dispatched
\* request gets the same step order as the first one
C9_SettingsUnchanged ==
  [][/\ settings' = settings
     /\ lastQueue' # <<>> => lastQueue' = firstQueue']_vars

C9_Witness ==
  /\ repeated
  /\ NumMws = 2
  /\ settings.middlewares[1] # settings.middlewares[2]
  /\ lastQueue = firstQueue
  /\ \E r \in Reqs : Done(r) /\ Len(calls[r]) = 3

\* C10: within a request every step is invoked at most once, and only by
\* the dispatch or a next() call; next() on an empty queue invokes nothing
\* and gives its caller an error; a step that settles without calling
\* next() has invoked nothing, and the steps still queued stay uninvoked
C10_StepsAtMostOnce ==
  \A r \in Reqs :
    Handled(r) =>
      /\ \A p \in 1..InnerPos : CallsTo(r, p) <= 1
      /\ Len(stack[r]) + Len(returns[r]) = Len(calls[r])
      /\ \A i \in Indices(calls[r]) :
           /\ calls[r][i][2] \in 1..InnerPos
           /\ i = 1 <=> calls[r][i][1] = 0
      /\ \A i \in Indices(handlers[r]) : CallsTo(r, handlers[r][i].pos) = 0
      /\ Len(handlers[r]) + Len(calls[r]) = IF TrailingSlash(reqUrl[r].path)
                                            THEN 0 ELSE InnerPos
      /\ \A i \in Indices(stack[r]) :
           LET f == stack[r][i]
           IN /\ CallsBy(r, f.step.pos) <= f.nexts
              /\ CallsBy(r, f.step.pos) < f.nexts =>
                   /\ f.pc = "resumed"
                   /\ f.ret.kind = "err"
                   /\ handlers[r] = <<>>
      /\ \A i \in Indices(returns[r]) :
           /\ CallsBy(r, returns[r][i].pos) <= returns[r][i].nexts
           /\ returns[r][i].nexts = 0 => CallsBy(r, returns[r][i].pos) = 0
      /\ (Done(r) /\ returns[r] # <<>> /\ returns[r][Len(returns[r])].nexts = 0) =>
           /\ Len(calls[r]) = 1
           /\ Len(handlers[r]) = NumMws

C10_Witness ==
  \E r \in Reqs :
    /\ stack[r] # <<>>
    /\ Top(r).step.mw.kind = "custom"
    /\ Top(r).nexts = 2
    /\ CallsBy(r, Top(r).step.pos) = 1
    /\ Top(r).ret.kind = "err"
    /\ NumMws = 2
====
